---- MODULE Spec2Model ----
(***************************************************************************)
(* A model of the poker hand evaluator (class HandEvaluator and the        *)
(* function evaluateHand).  A card token such as "As" is the sequence of   *)
(* its characters <<"A", "s">>; a hand is a sequence of card tokens (a JS  *)
(* array).  The memoized category predicates of the class read and write   *)
(* two fields of the evaluator object, this.cards (sorted in place) and    *)
(* this.evaluation (the flags assigned so far).  The pair of them is the   *)
(* record st = [cards, ev] that every predicate below takes and returns.   *)
(***************************************************************************)
EXTENDS Integers, Sequences, FiniteSets, TLC

VARIABLES
  given,         \* the card tokens the caller passes, in the order passed
  input,         \* the caller's array object (the constructor aliases it)
  strict,        \* the strict argument of evaluateHand
  pc,            \* where the call stands: start, loop, done or error
  combinations,  \* the 5-card combinations of a longer input
  idx,           \* the combination the loop evaluates next (from 1)
  result,        \* the result object: its entries, in property order
  error          \* the error the call threw: its kind and what its message names

vars == <<given, input, strict, pc, combinations, idx, result, error>>

(***************************************************************************)
(* Card model                                                              *)
(***************************************************************************)
validRanks ==
  {<<"A">>, <<"K">>, <<"Q">>, <<"J">>, <<"T">>, <<"9">>, <<"8">>, <<"7">>,
   <<"6">>, <<"5">>, <<"4">>, <<"3">>, <<"2">>}

validSuits == {<<"s">>, <<"h">>, <<"d">>, <<"c">>}

\* card.slice(0, -1)
RankOf(card) == SubSeq(card, 1, Len(card) - 1)

\* card.slice(-1)
SuitOf(card) == SubSeq(card, Len(card), Len(card))

rankMap ==
  (<<"A">> :> 13) @@ (<<"K">> :> 12) @@ (<<"Q">> :> 11) @@ (<<"J">> :> 10) @@
  (<<"T">> :> 9) @@ (<<"9">> :> 8) @@ (<<"8">> :> 7) @@ (<<"7">> :> 6) @@
  (<<"6">> :> 5) @@ (<<"5">> :> 4) @@ (<<"4">> :> 3) @@ (<<"3">> :> 2) @@
  (<<"2">> :> 1)

rankMapWheel ==
  (<<"A">> :> 1) @@ (<<"2">> :> 2) @@ (<<"3">> :> 3) @@ (<<"4">> :> 4) @@
  (<<"5">> :> 5) @@ (<<"6">> :> 6) @@ (<<"7">> :> 7) @@ (<<"8">> :> 8) @@
  (<<"9">> :> 9) @@ (<<"T">> :> 10) @@ (<<"J">> :> 11) @@ (<<"Q">> :> 12) @@
  (<<"K">> :> 13)

getRankValue(card) == rankMap[RankOf(card)]

getRankValueWheel(card) == rankMapWheel[RankOf(card)]

\* The comparator key of a sort: ace-low when wheel is TRUE.
ValueOf(card, wheel) ==
  IF wheel THEN getRankValueWheel(card) ELSE getRankValue(card)

(***************************************************************************)
(* Array.prototype.sort with the comparator (a, b) => value(b) - value(a): *)
(* a stable sort by non-increasing value.  InsertDesc puts a card behind   *)
(* every card already placed whose value is at least its own.              *)
(***************************************************************************)
InsertDesc(sorted, card, wheel) ==
  LET v == ValueOf(card, wheel)
      k == Cardinality({i \in 1..Len(sorted) : ValueOf(sorted[i], wheel) >= v})
  IN  SubSeq(sorted, 1, k) \o <<card>> \o SubSeq(sorted, k + 1, Len(sorted))

RECURSIVE SortDesc(_, _)
SortDesc(cards, wheel) ==
  IF cards = <<>> THEN <<>>
  ELSE InsertDesc(SortDesc(SubSeq(cards, 1, Len(cards) - 1), wheel),
                  cards[Len(cards)], wheel)

\* Array.prototype.filter: the elements satisfying keep, in their order.
RECURSIVE FilterSeq(_, _)
FilterSeq(s, keep) ==
  IF s = <<>> THEN <<>>
  ELSE LET rest == FilterSeq(SubSeq(s, 1, Len(s) - 1), keep)
       IN  IF s[Len(s)] \in keep THEN Append(rest, s[Len(s)]) ELSE rest

ToSet(s) == {s[i] : i \in 1..Len(s)}

(***************************************************************************)
(* The evaluator object while one hand is classified.                      *)
(***************************************************************************)
NoFlags == [n \in {} |-> TRUE]

NewState(cards) == [cards |-> cards, ev |-> NoFlags]

\* this.evaluation[name] !== undefined
Has(st, name) == name \in DOMAIN st.ev

\* this.evaluation[name] = v
Put(st, name, v) == [st EXCEPT !.ev = (name :> v) @@ st.ev]

\* this.evaluation[name] read as a condition: undefined counts as false
Truthy(st, name) == Has(st, name) /\ st.ev[name]

\* this.#sort(): sorts this.cards in place, ace high
sort(st) == [st EXCEPT !.cards = SortDesc(st.cards, FALSE)]

\* this.#sortWheel(): sorts this.cards in place, ace low
sortWheel(st) == [st EXCEPT !.cards = SortDesc(st.cards, TRUE)]

\* #getDistance(cards) with an argument: sorts a copy
getDistance(cards) ==
  IF Len(cards) = 0 THEN 0
  ELSE LET sortedCards == SortDesc(cards, FALSE)
       IN  getRankValue(sortedCards[1]) - getRankValue(sortedCards[Len(sortedCards)])

\* #getDistanceWheel(cards) with an argument: sorts a copy
getDistanceWheel(cards) ==
  IF Len(cards) = 0 THEN 0
  ELSE LET sortedCards == SortDesc(cards, TRUE)
       IN  getRankValueWheel(sortedCards[1]) - getRankValueWheel(sortedCards[Len(sortedCards)])

\* #getDistance() without argument: value read after this.#sort()
getDistanceThis(st) ==
  IF Len(st.cards) = 0 THEN 0
  ELSE LET sorted == sort(st).cards
       IN  getRankValue(sorted[1]) - getRankValue(sorted[Len(sorted)])

\* #getDistanceWheel() without argument: value read after this.#sortWheel()
getDistanceWheelThis(st) ==
  IF Len(st.cards) = 0 THEN 0
  ELSE LET sorted == sortWheel(st).cards
       IN  getRankValueWheel(sorted[1]) - getRankValueWheel(sorted[Len(sorted)])

\* #countSuits(): suit -> count
countSuits(st) ==
  [s \in {SuitOf(st.cards[i]) : i \in 1..Len(st.cards)} |->
     Cardinality({i \in 1..Len(st.cards) : SuitOf(st.cards[i]) = s})]

\* #getRankCounts(): rank -> count (its this.#sort() is applied by the callers
\* through sort(st))
getRankCounts(st) ==
  [r \in {RankOf(st.cards[i]) : i \in 1..Len(st.cards)} |->
     Cardinality({i \in 1..Len(st.cards) : RankOf(st.cards[i]) = r})]

\* Object.values(rankCounts).sort((a, b) => b - a)
RECURSIVE CountsFrom(_, _)
CountsFrom(rc, k) ==
  IF k = 0 THEN <<>>
  ELSE [i \in 1..Cardinality({r \in DOMAIN rc : rc[r] = k}) |-> k]
         \o CountsFrom(rc, k - 1)

\* #countRanks(): the counts, largest first
countRanks(st) == CountsFrom(getRankCounts(st), Len(st.cards))

\* ranks[i] of a JS array, 0-based; 0 stands for undefined (no count is 0)
At(ranks, i) == IF i + 1 <= Len(ranks) THEN ranks[i + 1] ELSE 0

\* #getRankCountsSorted(): the (rank, count, value) entries, highest value
\* first; the values of distinct ranks are distinct
getRankCountsSorted(st) ==
  LET rc == getRankCounts(st)
      n  == Cardinality(DOMAIN rc)
      pos(r) == Cardinality({q \in DOMAIN rc : rankMap[q] > rankMap[r]}) + 1
  IN  [p \in 1..n |->
         LET r == CHOOSE q \in DOMAIN rc : pos(q) = p
         IN  [rank |-> r, count |-> rc[r], value |-> rankMap[r]]]

\* ranks[i].count of a JS array, 0-based
CountAt(ranks, i) == IF i + 1 <= Len(ranks) THEN ranks[i + 1].count ELSE 0


(***************************************************************************)
(* Made hands.  Each predicate returns the evaluator object after the      *)
(* call: the flag is assigned once (memoized) and this.cards is left in    *)
(* the order of the last sort the call made.                               *)
(***************************************************************************)
isFourOfAKind(st) ==
  IF Has(st, "isFourOfAKind") THEN st
  ELSE LET s1 == sort(st)
           ranks == countRanks(s1)
       IN  Put(s1, "isFourOfAKind", At(ranks, 0) = 4 /\ At(ranks, 1) = 1)

isFullHouse(st) ==
  IF Has(st, "isFullHouse") THEN st
  ELSE LET s1 == sort(st)
           ranks == countRanks(s1)
       IN  Put(s1, "isFullHouse", At(ranks, 0) = 3 /\ At(ranks, 1) = 2)

isThreeOfAKind(st) ==
  IF Has(st, "isThreeOfAKind") THEN st
  ELSE LET s1 == sort(st)
           ranks == countRanks(s1)
       IN  Put(s1, "isThreeOfAKind",
               At(ranks, 0) = 3 /\ At(ranks, 1) = 1 /\ At(ranks, 2) = 1)

isTwoPair(st) ==
  IF Has(st, "isTwoPair") THEN st
  ELSE LET s1 == sort(st)
           ranks == countRanks(s1)
       IN  Put(s1, "isTwoPair",
               At(ranks, 0) = 2 /\ At(ranks, 1) = 2 /\ At(ranks, 2) = 1)

isPair(st) ==
  IF Has(st, "isPair") THEN st
  ELSE LET s1 == sort(st)
           ranks == countRanks(s1)
       IN  Put(s1, "isPair",
               At(ranks, 0) = 2 /\ At(ranks, 1) = 1 /\ At(ranks, 2) = 1
                 /\ At(ranks, 3) = 1)

\* this.#<name>(), dispatched on the name of the method (defined below, after
\* the methods)
RECURSIVE Call(_, _)

\* if (this.evaluation.<name> === undefined) this.#<name>();
Ensure(name, st) == IF Has(st, name) THEN st ELSE Call(name, st)

\* if (this.evaluation.isPair === undefined) this.#isPair(); and its siblings
EnsurePair(st) == Ensure("isPair", st)

EnsureTwoPair(st) == Ensure("isTwoPair", st)

EnsureThreeOfAKind(st) == Ensure("isThreeOfAKind", st)

EnsureFullHouse(st) == Ensure("isFullHouse", st)

EnsureFourOfAKind(st) == Ensure("isFourOfAKind", st)

\* the five guards at the head of the straight and straight-draw predicates
EnsureRankHands(st) ==
  EnsureFourOfAKind(EnsureFullHouse(EnsureThreeOfAKind(EnsureTwoPair(EnsurePair(st)))))

\* isPair || isTwoPair || isThreeOfAKind || isFullHouse || isFourOfAKind
HasRankHand(st) ==
  st.ev["isPair"] \/ st.ev["isTwoPair"] \/ st.ev["isThreeOfAKind"]
    \/ st.ev["isFullHouse"] \/ st.ev["isFourOfAKind"]

(***************************************************************************)
(* Pair, two pair and three of a kind categorization                       *)
(***************************************************************************)
\* isTopPair without the return of false for a hand that is no pair
isTopPair_NoGuard(st) ==
  IF Has(st, "isTopPair") THEN st
  ELSE LET s2 == sort(EnsurePair(st))
           rankCounts == getRankCounts(s2)
       IN  Put(s2, "isTopPair", rankCounts[RankOf(s2.cards[1])] = 2)

isTopPair(st) ==
  IF Has(st, "isTopPair") THEN st
  ELSE LET s1 == EnsurePair(st)
       IN  IF ~s1.ev["isPair"] THEN Put(s1, "isTopPair", FALSE)
           ELSE LET s2 == sort(s1)
                    rankCounts == getRankCounts(s2)
                IN  Put(s2, "isTopPair", rankCounts[RankOf(s2.cards[1])] = 2)

\* #isMiddlePair looking at the second-highest rank alone
isMiddlePair_SecondRankOnly(st) ==
  IF Has(st, "isMiddlePair") THEN st
  ELSE LET s1 == EnsureTwoPair(EnsurePair(st))
       IN  IF ~s1.ev["isPair"] \/ s1.ev["isTwoPair"]
           THEN Put(s1, "isMiddlePair", FALSE)
           ELSE LET s2 == sort(s1)
                    ranks == getRankCountsSorted(s2)
                IN  Put(s2, "isMiddlePair",
                        Len(ranks) = 4 /\ CountAt(ranks, 1) = 2)

isMiddlePair(st) ==
  IF Has(st, "isMiddlePair") THEN st
  ELSE LET s1 == EnsureTwoPair(EnsurePair(st))
       IN  IF ~s1.ev["isPair"] \/ s1.ev["isTwoPair"]
           THEN Put(s1, "isMiddlePair", FALSE)
           ELSE LET s2 == sort(s1)
                    ranks == getRankCountsSorted(s2)
                IN  Put(s2, "isMiddlePair",
                        Len(ranks) = 4
                          /\ (CountAt(ranks, 1) = 2 \/ CountAt(ranks, 2) = 2))

isBottomPair(st) ==
  IF Has(st, "isBottomPair") THEN st
  ELSE LET s1 == EnsurePair(st)
       IN  IF ~s1.ev["isPair"] THEN Put(s1, "isBottomPair", FALSE)
           ELSE LET s2 == sort(s1)
                    rankCounts == getRankCounts(s2)
                IN  Put(s2, "isBottomPair",
                        rankCounts[RankOf(s2.cards[Len(s2.cards)])] = 2)

isTopAndMiddlePair(st) ==
  IF Has(st, "isTopAndMiddlePair") THEN st
  ELSE LET s1 == EnsureTwoPair(st)
       IN  IF ~s1.ev["isTwoPair"] THEN Put(s1, "isTopAndMiddlePair", FALSE)
           ELSE LET s2 == sort(s1)
                    ranks == getRankCountsSorted(s2)
                IN  Put(s2, "isTopAndMiddlePair",
                        CountAt(ranks, 0) = 2 /\ CountAt(ranks, 1) = 2)

isTopAndBottomPair(st) ==
  IF Has(st, "isTopAndBottomPair") THEN st
  ELSE LET s1 == EnsureTwoPair(st)
       IN  IF ~s1.ev["isTwoPair"] THEN Put(s1, "isTopAndBottomPair", FALSE)
           ELSE LET s2 == sort(s1)
                    ranks == getRankCountsSorted(s2)
                IN  Put(s2, "isTopAndBottomPair",
                        CountAt(ranks, 0) = 2
                          /\ CountAt(ranks, Len(ranks) - 1) = 2)

isMiddleAndBottomPair(st) ==
  IF Has(st, "isMiddleAndBottomPair") THEN st
  ELSE LET s1 == EnsureTwoPair(st)
       IN  IF ~s1.ev["isTwoPair"] THEN Put(s1, "isMiddleAndBottomPair", FALSE)
           ELSE LET s2 == sort(s1)
                    ranks == getRankCountsSorted(s2)
                IN  Put(s2, "isMiddleAndBottomPair",
                        Len(ranks) = 3 /\ CountAt(ranks, 1) = 2
                          /\ CountAt(ranks, 2) = 2)

isTopThreeOfAKind(st) ==
  IF Has(st, "isTopThreeOfAKind") THEN st
  ELSE LET s1 == EnsureThreeOfAKind(st)
       IN  IF ~s1.ev["isThreeOfAKind"] THEN Put(s1, "isTopThreeOfAKind", FALSE)
           ELSE LET s2 == sort(s1)
                    rankCounts == getRankCounts(s2)
                IN  Put(s2, "isTopThreeOfAKind",
                        rankCounts[RankOf(s2.cards[1])] = 3)

isMiddleThreeOfAKind(st) ==
  IF Has(st, "isMiddleThreeOfAKind") THEN st
  ELSE LET s1 == EnsureThreeOfAKind(st)
       IN  IF ~s1.ev["isThreeOfAKind"]
           THEN Put(s1, "isMiddleThreeOfAKind", FALSE)
           ELSE LET s2 == sort(s1)
                    ranks == getRankCountsSorted(s2)
                IN  Put(s2, "isMiddleThreeOfAKind",
                        Len(ranks) = 3 /\ CountAt(ranks, 1) = 3)

isBottomThreeOfAKind(st) ==
  IF Has(st, "isBottomThreeOfAKind") THEN st
  ELSE LET s1 == EnsureThreeOfAKind(st)
       IN  IF ~s1.ev["isThreeOfAKind"]
           THEN Put(s1, "isBottomThreeOfAKind", FALSE)
           ELSE LET s2 == sort(s1)
                    rankCounts == getRankCounts(s2)
                IN  Put(s2, "isBottomThreeOfAKind",
                        rankCounts[RankOf(s2.cards[Len(s2.cards)])] = 3)

(***************************************************************************)
(* Flush and flush draws                                                   *)
(***************************************************************************)
\* Object.values(suits).some(count => count === n)
SomeSuitCount(st, n) ==
  LET suits == countSuits(st) IN \E s \in DOMAIN suits : suits[s] = n

isFlush(st) ==
  IF Has(st, "isFlush") THEN st
  ELSE Put(st, "isFlush", SomeSuitCount(st, 5))

EnsureFlush(st) == Ensure("isFlush", st)

isFlushDraw(st) ==
  IF Has(st, "isFlushDraw") THEN st
  ELSE LET s1 == EnsureFlush(st)
       IN  IF s1.ev["isFlush"] THEN Put(s1, "isFlushDraw", FALSE)
           ELSE Put(s1, "isFlushDraw", SomeSuitCount(s1, 4))

EnsureFlushDraw(st) == Ensure("isFlushDraw", st)

\* isBackdoorFlushDraw that leaves isFlushDraw out of its guard and accepts
\* a suit count of 3 or more
isBackdoorFlushDraw_ThreeOrMore(st) ==
  IF Has(st, "isBackdoorFlushDraw") THEN st
  ELSE LET s1 == EnsureFlushDraw(EnsureFlush(st))
       IN  IF s1.ev["isFlush"] THEN Put(s1, "isBackdoorFlushDraw", FALSE)
           ELSE Put(s1, "isBackdoorFlushDraw",
                    SomeSuitCount(s1, 3) \/ SomeSuitCount(s1, 4))

isBackdoorFlushDraw(st) ==
  IF Has(st, "isBackdoorFlushDraw") THEN st
  ELSE LET s1 == EnsureFlushDraw(EnsureFlush(st))
       IN  IF s1.ev["isFlush"] \/ s1.ev["isFlushDraw"]
           THEN Put(s1, "isBackdoorFlushDraw", FALSE)
           ELSE Put(s1, "isBackdoorFlushDraw", SomeSuitCount(s1, 3))


(***************************************************************************)
(* Straights                                                               *)
(***************************************************************************)
isStraightWheel(st) ==
  IF Has(st, "isStraightWheel") THEN st
  ELSE LET s1 == EnsureRankHands(st)
       IN  IF HasRankHand(s1) THEN Put(s1, "isStraightWheel", FALSE)
           ELSE LET s2 == sortWheel(s1)
                    distance == getDistanceWheelThis(s2)
                IN  Put(sortWheel(s2), "isStraightWheel", distance = 4)

\* isStraight without the fallback to the wheel
isStraight_NoWheel(st) ==
  IF Has(st, "isStraight") THEN st
  ELSE LET s1 == EnsureRankHands(st)
       IN  IF HasRankHand(s1) THEN Put(s1, "isStraight", FALSE)
           ELSE LET s2 == sort(sort(s1))
                    distance == getDistanceThis(s2)
                IN  Put(s2, "isStraight", distance = 4)

isStraight(st) ==
  IF Has(st, "isStraight") THEN st
  ELSE LET s1 == EnsureRankHands(st)
       IN  IF HasRankHand(s1) THEN Put(s1, "isStraight", FALSE)
           ELSE LET s2 == sort(sort(s1))
                    distance == getDistanceThis(s2)
                IN  IF distance = 4 THEN Put(s2, "isStraight", TRUE)
                    ELSE LET s3 == isStraightWheel(s2)
                         IN  Put(s3, "isStraight", s3.ev["isStraightWheel"])

EnsureStraight(st) == Ensure("isStraight", st)

EnsureStraightWheel(st) == Ensure("isStraightWheel", st)

\* isRoyalFlush that asks of the ranks of a straight flush only that they
\* include the ace
isRoyalFlush_AceOnly(st) ==
  IF Has(st, "isRoyalFlush") THEN st
  ELSE LET s1 == EnsureStraight(EnsureFlush(st))
       IN  IF ~s1.ev["isFlush"] \/ ~s1.ev["isStraight"]
           THEN Put(s1, "isRoyalFlush", FALSE)
           ELSE LET ranks == {RankOf(s1.cards[i]) : i \in 1..Len(s1.cards)}
                IN  Put(s1, "isRoyalFlush", <<"A">> \in ranks)

isRoyalFlush(st) ==
  IF Has(st, "isRoyalFlush") THEN st
  ELSE LET s1 == EnsureStraight(EnsureFlush(st))
       IN  IF ~s1.ev["isFlush"] \/ ~s1.ev["isStraight"]
           THEN Put(s1, "isRoyalFlush", FALSE)
           ELSE LET ranks == {RankOf(s1.cards[i]) : i \in 1..Len(s1.cards)}
                IN  Put(s1, "isRoyalFlush",
                        <<"A">> \in ranks /\ <<"K">> \in ranks /\ <<"Q">> \in ranks
                          /\ <<"J">> \in ranks /\ <<"T">> \in ranks)

EnsureRoyalFlush(st) == Ensure("isRoyalFlush", st)

isStraightFlush(st) ==
  IF Has(st, "isStraightFlush") THEN st
  ELSE LET s1 == EnsureRoyalFlush(EnsureStraight(EnsureFlush(st)))
       IN  Put(s1, "isStraightFlush",
               s1.ev["isFlush"] /\ s1.ev["isStraight"] /\ ~s1.ev["isRoyalFlush"])

(***************************************************************************)
(* Straight draws                                                          *)
(***************************************************************************)
\* this.cards.slice(0, 4) and this.cards.slice(1, 5)
FirstFour(cards) == SubSeq(cards, 1, 4)

LastFour(cards) == SubSeq(cards, 2, 5)

\* #isOpenEndedStraightDrawWheel returning false for a wheel straight only,
\* not for a pair or better
isOpenEndedStraightDrawWheel_NoRankGuard(st) ==
  IF Has(st, "isOpenEndedStraightDrawWheel") THEN st
  ELSE LET s1 == EnsureStraightWheel(EnsureRankHands(st))
       IN  IF s1.ev["isStraightWheel"]
           THEN Put(s1, "isOpenEndedStraightDrawWheel", FALSE)
           ELSE LET s2 == sortWheel(s1)
                IN  Put(s2, "isOpenEndedStraightDrawWheel",
                        getDistanceWheel(FirstFour(s2.cards)) = 3
                          \/ getDistanceWheel(LastFour(s2.cards)) = 3)

isOpenEndedStraightDrawWheel(st) ==
  IF Has(st, "isOpenEndedStraightDrawWheel") THEN st
  ELSE LET s1 == EnsureStraightWheel(EnsureRankHands(st))
       IN  IF HasRankHand(s1) \/ s1.ev["isStraightWheel"]
           THEN Put(s1, "isOpenEndedStraightDrawWheel", FALSE)
           ELSE LET s2 == sortWheel(s1)
                IN  Put(s2, "isOpenEndedStraightDrawWheel",
                        getDistanceWheel(FirstFour(s2.cards)) = 3
                          \/ getDistanceWheel(LastFour(s2.cards)) = 3)

isOpenEndedStraightDraw(st) ==
  IF Has(st, "isOpenEndedStraightDraw") THEN st
  ELSE LET s1 == EnsureStraight(EnsureRankHands(st))
       IN  IF HasRankHand(s1) \/ s1.ev["isStraight"]
           THEN LET s2 == isOpenEndedStraightDrawWheel(s1)
                IN  Put(s2, "isOpenEndedStraightDraw",
                        s2.ev["isOpenEndedStraightDrawWheel"])
           ELSE LET s2 == sort(s1)
                    found == getDistance(FirstFour(s2.cards)) = 3
                               \/ getDistance(LastFour(s2.cards)) = 3
                IN  IF found THEN Put(s2, "isOpenEndedStraightDraw", TRUE)
                    ELSE LET s3 == isOpenEndedStraightDrawWheel(s2)
                         IN  Put(s3, "isOpenEndedStraightDraw",
                                 s3.ev["isOpenEndedStraightDrawWheel"])

isInsideStraightDrawWheel(st) ==
  IF Has(st, "isInsideStraightDrawWheel") THEN st
  ELSE LET s1 == EnsureStraightWheel(EnsureRankHands(st))
       IN  IF HasRankHand(s1) \/ s1.ev["isStraightWheel"]
           THEN Put(s1, "isInsideStraightDrawWheel", FALSE)
           ELSE LET s2 == sortWheel(s1)
                IN  Put(s2, "isInsideStraightDrawWheel",
                        getDistanceWheel(FirstFour(s2.cards)) = 4
                          \/ getDistanceWheel(LastFour(s2.cards)) = 4)

\* #isInsideStraightDraw that does not ask the wheel variant when the ace-high
\* order shows no inside draw
isInsideStraightDraw_NoWheelFallback(st) ==
  IF Has(st, "isInsideStraightDraw") THEN st
  ELSE LET s1 == EnsureStraight(EnsureRankHands(st))
       IN  IF HasRankHand(s1) \/ s1.ev["isStraight"]
           THEN LET s2 == isInsideStraightDrawWheel(s1)
                IN  Put(s2, "isInsideStraightDraw",
                        s2.ev["isInsideStraightDrawWheel"])
           ELSE LET s2 == sort(s1)
                IN  Put(s2, "isInsideStraightDraw",
                        getDistance(FirstFour(s2.cards)) = 4
                          \/ getDistance(LastFour(s2.cards)) = 4)

isInsideStraightDraw(st) ==
  IF Has(st, "isInsideStraightDraw") THEN st
  ELSE LET s1 == EnsureStraight(EnsureRankHands(st))
       IN  IF HasRankHand(s1) \/ s1.ev["isStraight"]
           THEN LET s2 == isInsideStraightDrawWheel(s1)
                IN  Put(s2, "isInsideStraightDraw",
                        s2.ev["isInsideStraightDrawWheel"])
           ELSE LET s2 == sort(s1)
                    found == getDistance(FirstFour(s2.cards)) = 4
                               \/ getDistance(LastFour(s2.cards)) = 4
                IN  IF found THEN Put(s2, "isInsideStraightDraw", TRUE)
                    ELSE LET s3 == isInsideStraightDrawWheel(s2)
                         IN  Put(s3, "isInsideStraightDraw",
                                 s3.ev["isInsideStraightDrawWheel"])

\* isStraightDraw that returns isOpenEndedStraightDraw alone
isStraightDraw_OpenEndedOnly(st) ==
  IF Has(st, "isStraightDraw") THEN st
  ELSE LET s2 == Ensure("isInsideStraightDraw",
                       Ensure("isOpenEndedStraightDraw", st))
       IN  Put(s2, "isStraightDraw", s2.ev["isOpenEndedStraightDraw"])

\* #isStraightDraw reading the two draw flags as they stand, without
\* computing the one that is still undefined
isStraightDraw_NoDependencies(st) ==
  IF Has(st, "isStraightDraw") THEN st
  ELSE Put(st, "isStraightDraw",
           Truthy(st, "isOpenEndedStraightDraw") \/ Truthy(st, "isInsideStraightDraw"))

isStraightDraw(st) ==
  IF Has(st, "isStraightDraw") THEN st
  ELSE LET s2 == Ensure("isInsideStraightDraw",
                       Ensure("isOpenEndedStraightDraw", st))
       IN  Put(s2, "isStraightDraw",
               s2.ev["isOpenEndedStraightDraw"] \/ s2.ev["isInsideStraightDraw"])

(***************************************************************************)
(* High card                                                               *)
(***************************************************************************)
\* isHighCard that does not look at isFlush
isHighCard_IgnoreFlush(st) ==
  IF Has(st, "isHighCard") THEN st
  ELSE LET s1 == EnsureStraight(EnsureFlush(EnsureRankHands(st)))
       IN  Put(s1, "isHighCard",
               ~s1.ev["isPair"] /\ ~s1.ev["isTwoPair"] /\ ~s1.ev["isThreeOfAKind"]
                 /\ ~s1.ev["isFullHouse"] /\ ~s1.ev["isFourOfAKind"]
                 /\ ~s1.ev["isStraight"])

isHighCard(st) ==
  IF Has(st, "isHighCard") THEN st
  ELSE LET s1 == EnsureStraight(EnsureFlush(EnsureRankHands(st)))
       IN  Put(s1, "isHighCard",
               ~s1.ev["isPair"] /\ ~s1.ev["isTwoPair"] /\ ~s1.ev["isThreeOfAKind"]
                 /\ ~s1.ev["isFullHouse"] /\ ~s1.ev["isFourOfAKind"]
                 /\ ~s1.ev["isFlush"] /\ ~s1.ev["isStraight"])


(***************************************************************************)
(* Key cards.  A getter returns the cards it found (val) together with the *)
(* evaluator object it leaves behind (st): several getters sort this.cards *)
(* in place.                                                               *)
(***************************************************************************)
Ret(st, val) == [st |-> st, val |-> val]

\* [...this.cards].sort(ace high)
SortedCopy(st) == SortDesc(st.cards, FALSE)

\* this.cards.filter(c => c.slice(0, -1) is one of ranks).sort(ace high)
CardsOfRanks(st, ranks) ==
  SortDesc(FilterSeq(st.cards, {c \in ToSet(st.cards) : RankOf(c) \in ranks}), FALSE)

\* this.cards.filter(c => c.slice(-1) === suit).sort(ace high)
CardsOfSuits(st, suits) ==
  SortDesc(FilterSeq(st.cards, {c \in ToSet(st.cards) : SuitOf(c) \in suits}), FALSE)

\* #getGaps() and #getGapsWheel(), read after their own sort of this.cards
getGaps(st) ==
  LET sorted == sort(st).cards
  IN  [i \in 1..4 |-> getRankValue(sorted[i]) - getRankValue(sorted[i + 1])]

getGapsWheel(st) ==
  LET sorted == sortWheel(st).cards
  IN  [i \in 1..4 |-> getRankValueWheel(sorted[i]) - getRankValueWheel(sorted[i + 1])]

\* #getStraightCards returning the wheel straight in ace-high order
getStraightCards_AceHighOrder(st) ==
  LET s1 == sort(sort(st))
      gaps == getGaps(s1)
  IN  IF \A i \in 1..4 : gaps[i] = 1 THEN Ret(s1, SortDesc(s1.cards, FALSE))
      ELSE LET s2 == sortWheel(sortWheel(s1))
               gapsWheel == getGapsWheel(s2)
           IN  IF \A i \in 1..4 : gapsWheel[i] = 1
               THEN Ret(s2, SortDesc(s2.cards, FALSE))
               ELSE Ret(s2, <<>>)

getStraightCards(st) ==
  LET s1 == sort(sort(st))
      gaps == getGaps(s1)
  IN  IF \A i \in 1..4 : gaps[i] = 1 THEN Ret(s1, SortDesc(s1.cards, FALSE))
      ELSE LET s2 == sortWheel(sortWheel(s1))
               gapsWheel == getGapsWheel(s2)
           IN  IF \A i \in 1..4 : gapsWheel[i] = 1
               THEN Ret(s2, SortDesc(s2.cards, TRUE))
               ELSE Ret(s2, <<>>)

getStraightDrawCards(st) ==
  LET s1 == sort(st)
      firstFour == FirstFour(s1.cards)
      lastFour == LastFour(s1.cards)
      firstFourDist == getDistance(firstFour)
      lastFourDist == getDistance(lastFour)
  IN  IF firstFourDist = 3 \/ firstFourDist = 4
      THEN Ret(s1, SortDesc(firstFour, FALSE))
      ELSE IF lastFourDist = 3 \/ lastFourDist = 4
      THEN Ret(s1, SortDesc(lastFour, FALSE))
      ELSE LET s2 == sortWheel(s1)
               firstFourWheel == FirstFour(s2.cards)
               lastFourWheel == LastFour(s2.cards)
               firstFourDistWheel == getDistanceWheel(firstFourWheel)
               lastFourDistWheel == getDistanceWheel(lastFourWheel)
           IN  IF firstFourDistWheel = 3 \/ firstFourDistWheel = 4
               THEN Ret(s2, SortDesc(firstFourWheel, TRUE))
               ELSE IF lastFourDistWheel = 3 \/ lastFourDistWheel = 4
               THEN Ret(s2, SortDesc(lastFourWheel, TRUE))
               ELSE Ret(s2, <<>>)

\* the ranks r with rankCounts[r] === n (find / filter over Object.keys)
RanksWithCount(st, n) ==
  LET rankCounts == getRankCounts(st)
  IN  {r \in DOMAIN rankCounts : rankCounts[r] = n}

\* the suits s with suits[s] === n
SuitsWithCount(st, n) ==
  LET suits == countSuits(st) IN {s \in DOMAIN suits : suits[s] = n}

getKeyCardsForFourOfAKind(st) ==
  IF ~Truthy(st, "isFourOfAKind") THEN Ret(st, <<>>)
  ELSE LET s1 == sort(st)
       IN  Ret(s1, CardsOfRanks(s1, RanksWithCount(s1, 4)))

getKeyCardsForFlush(st) ==
  IF ~Truthy(st, "isFlush") THEN Ret(st, <<>>)
  ELSE Ret(st, CardsOfSuits(st, SuitsWithCount(st, 5)))

getKeyCardsForStraight(st) ==
  IF ~Truthy(st, "isStraight") THEN Ret(st, <<>>) ELSE getStraightCards(st)

getKeyCardsForThreeOfAKind(st) ==
  IF ~Truthy(st, "isThreeOfAKind") THEN Ret(st, <<>>)
  ELSE LET s1 == sort(st)
       IN  Ret(s1, CardsOfRanks(s1, RanksWithCount(s1, 3)))

getKeyCardsForTwoPair(st) ==
  IF ~Truthy(st, "isTwoPair") THEN Ret(st, <<>>)
  ELSE LET s1 == sort(st)
       IN  Ret(s1, CardsOfRanks(s1, RanksWithCount(s1, 2)))

getKeyCardsForPair(st) ==
  IF ~Truthy(st, "isPair") THEN Ret(st, <<>>)
  ELSE LET s1 == sort(st)
       IN  Ret(s1, CardsOfRanks(s1, RanksWithCount(s1, 2)))

getKeyCardsForFlushDraw(st) ==
  IF ~Truthy(st, "isFlushDraw") THEN Ret(st, <<>>)
  ELSE Ret(st, CardsOfSuits(st, SuitsWithCount(st, 4)))

getKeyCardsForBackdoorFlushDraw(st) ==
  IF ~Truthy(st, "isBackdoorFlushDraw") THEN Ret(st, <<>>)
  ELSE Ret(st, CardsOfSuits(st, SuitsWithCount(st, 3)))

\* the getter of one category, as #buildKeyCardsObject calls it
getKeyCardsFor(name, st) ==
  CASE name \in {"isRoyalFlush", "isStraightFlush", "isFullHouse"} ->
         IF ~Truthy(st, name) THEN Ret(st, <<>>) ELSE Ret(st, SortedCopy(st))
    [] name = "isFourOfAKind" -> getKeyCardsForFourOfAKind(st)
    [] name = "isFlush" -> getKeyCardsForFlush(st)
    [] name = "isStraight" -> getKeyCardsForStraight(st)
    [] name = "isThreeOfAKind" -> getKeyCardsForThreeOfAKind(st)
    [] name = "isTwoPair" -> getKeyCardsForTwoPair(st)
    [] name = "isPair" -> getKeyCardsForPair(st)
    [] name \in {"isTopPair", "isMiddlePair", "isBottomPair"} ->
         IF ~Truthy(st, name) THEN Ret(st, <<>>) ELSE getKeyCardsForPair(st)
    [] name \in {"isTopAndMiddlePair", "isTopAndBottomPair",
                 "isMiddleAndBottomPair"} ->
         IF ~Truthy(st, name) THEN Ret(st, <<>>) ELSE getKeyCardsForTwoPair(st)
    [] name \in {"isTopThreeOfAKind", "isMiddleThreeOfAKind",
                 "isBottomThreeOfAKind"} ->
         IF ~Truthy(st, name) THEN Ret(st, <<>>) ELSE getKeyCardsForThreeOfAKind(st)
    [] name = "isFlushDraw" -> getKeyCardsForFlushDraw(st)
    [] name = "isBackdoorFlushDraw" -> getKeyCardsForBackdoorFlushDraw(st)
    [] name \in {"isOpenEndedStraightDraw", "isInsideStraightDraw",
                 "isStraightDraw", "isOpenEndedStraightDrawWheel",
                 "isInsideStraightDrawWheel"} ->
         IF ~Truthy(st, name) THEN Ret(st, <<>>) ELSE getStraightDrawCards(st)
    [] name = "isStraightWheel" ->
         IF ~Truthy(st, name) THEN Ret(st, <<>>) ELSE getStraightCards(st)
    [] name = "isHighCard" -> Ret(st, <<>>)

\* the property order of the object literal in #buildKeyCardsObject
KeyCardsOrder ==
  <<"isRoyalFlush", "isStraightFlush", "isFourOfAKind", "isFullHouse", "isFlush",
    "isStraight", "isThreeOfAKind", "isTwoPair", "isPair", "isTopPair",
    "isMiddlePair", "isBottomPair", "isTopAndMiddlePair", "isTopAndBottomPair",
    "isMiddleAndBottomPair", "isTopThreeOfAKind", "isMiddleThreeOfAKind",
    "isBottomThreeOfAKind", "isFlushDraw", "isBackdoorFlushDraw",
    "isOpenEndedStraightDraw", "isInsideStraightDraw", "isStraightDraw",
    "isStraightWheel", "isOpenEndedStraightDrawWheel",
    "isInsideStraightDrawWheel", "isHighCard">>

Categories == ToSet(KeyCardsOrder)

\* the properties of the keyCards object from the i-th on, evaluated in order
\* and added to obj.  (Every getter has added its property before the next
\* one runs; testing that makes TLC evaluate the getters one after the other
\* instead of nesting their evaluations.)
RECURSIVE BuildKeyCards(_, _, _)
BuildKeyCardsAfter(st, added, i) ==
  IF KeyCardsOrder[i] \in DOMAIN added THEN BuildKeyCards(st, added, i + 1)
  ELSE Ret(st, added)

\* <name>: this.#getKeyCardsFor<Name>(), got being what the getter returned
AddKeyCards(got, obj, i) ==
  BuildKeyCardsAfter(got.st, (KeyCardsOrder[i] :> got.val) @@ obj, i)

BuildKeyCards(st, obj, i) ==
  IF i > Len(KeyCardsOrder) THEN Ret(st, obj)
  ELSE AddKeyCards(getKeyCardsFor(KeyCardsOrder[i], st), obj, i)

buildKeyCardsObject(st) == BuildKeyCards(st, [c \in {} |-> <<>>], 1)

\* buildKickerCardsObject without the filter that removes the key cards
buildKickerCardsObject_NoFilter(keyCardsObj, st) ==
  LET sortedCards == SortDesc(st.cards, FALSE)
  IN  [handType \in DOMAIN keyCardsObj |->
         IF handType = "isHighCard" THEN sortedCards
         ELSE IF Len(keyCardsObj[handType]) = 0 THEN <<>>
         ELSE sortedCards]

buildKickerCardsObject(keyCardsObj, st) ==
  LET sortedCards == SortDesc(st.cards, FALSE)
  IN  [handType \in DOMAIN keyCardsObj |->
         IF handType = "isHighCard" THEN sortedCards
         ELSE IF Len(keyCardsObj[handType]) = 0 THEN <<>>
         ELSE SortDesc(FilterSeq(st.cards,
                                 ToSet(st.cards) \ ToSet(keyCardsObj[handType])),
                       FALSE)]


(***************************************************************************)
(* Strict mode                                                             *)
(***************************************************************************)
handStrength ==
  ("isRoyalFlush" :> 10) @@ ("isStraightFlush" :> 9) @@ ("isFourOfAKind" :> 8) @@
  ("isFullHouse" :> 7) @@ ("isFlush" :> 6) @@ ("isStraight" :> 5) @@
  ("isThreeOfAKind" :> 4) @@ ("isTwoPair" :> 3) @@ ("isPair" :> 2) @@
  ("isHighCard" :> 1)

MadeHands == DOMAIN handStrength

PairLabels == {"isTopPair", "isMiddlePair", "isBottomPair"}

TwoPairLabels ==
  {"isTopAndMiddlePair", "isTopAndBottomPair", "isMiddleAndBottomPair"}

ThreeOfAKindLabels ==
  {"isTopThreeOfAKind", "isMiddleThreeOfAKind", "isBottomThreeOfAKind"}

StraightDrawFlags ==
  {"isStraightDraw", "isOpenEndedStraightDraw", "isInsideStraightDraw"}

MaxOf(S) == CHOOSE x \in S : \A y \in S : y <= x

\* let strongest = 0; for each made hand: if set, strongest = max(...)
Strongest(flags) ==
  MaxOf({0} \cup {handStrength[h] :
                    h \in {g \in MadeHands : g \in DOMAIN flags /\ flags[g]}})

\* evaluation[name] = false for every name of the set
Clear(flags, names) ==
  [n \in DOMAIN flags \cup names |-> IF n \in names THEN FALSE ELSE flags[n]]

\* applyStrictMode filtering every draw, the flush draws too, from the made
\* straight up
applyStrictMode_FiltersFlushDraws(flags) ==
  LET strongest == Strongest(flags)
      f1 == Clear(flags, {h \in MadeHands : handStrength[h] < strongest})
      f2 == IF strongest # 2 THEN Clear(f1, PairLabels) ELSE f1
      f3 == IF strongest # 3 THEN Clear(f2, TwoPairLabels) ELSE f2
      f4 == IF strongest # 4 THEN Clear(f3, ThreeOfAKindLabels) ELSE f3
  IN  IF strongest >= 5
      THEN Clear(f4, StraightDrawFlags \cup {"isFlushDraw", "isBackdoorFlushDraw"})
      ELSE f4

\* applyStrictMode filtering the straight draws only above the flush
\* (strongest > 6)
applyStrictMode_DrawsAboveFlush(flags) ==
  LET strongest == Strongest(flags)
      f1 == Clear(flags, {h \in MadeHands : handStrength[h] < strongest})
      f2 == IF strongest # 2 THEN Clear(f1, PairLabels) ELSE f1
      f3 == IF strongest # 3 THEN Clear(f2, TwoPairLabels) ELSE f2
      f4 == IF strongest # 4 THEN Clear(f3, ThreeOfAKindLabels) ELSE f3
  IN  IF strongest > 6 THEN Clear(f4, StraightDrawFlags) ELSE f4

\* applyStrictMode without the pass that disables the weaker made hands
applyStrictMode_KeepWeaker(flags) ==
  LET strongest == Strongest(flags)
      f2 == IF strongest # 2 THEN Clear(flags, PairLabels) ELSE flags
      f3 == IF strongest # 3 THEN Clear(f2, TwoPairLabels) ELSE f2
      f4 == IF strongest # 4 THEN Clear(f3, ThreeOfAKindLabels) ELSE f3
  IN  IF strongest >= 6 THEN Clear(f4, StraightDrawFlags) ELSE f4

\* applyStrictMode switching every descriptive label off, the labels of the
\* strongest hand too
applyStrictMode_ClearsLabels(flags) ==
  LET strongest == Strongest(flags)
      f1 == Clear(flags, {h \in MadeHands : handStrength[h] < strongest})
      f4 == Clear(f1, PairLabels \cup TwoPairLabels \cup ThreeOfAKindLabels)
  IN  IF strongest >= 6 THEN Clear(f4, StraightDrawFlags) ELSE f4

\* #applyStrictMode(evaluation): the flags after the four filtering steps
applyStrictMode(flags) ==
  LET strongest == Strongest(flags)
      f1 == Clear(flags, {h \in MadeHands : handStrength[h] < strongest})
      f2 == IF strongest # 2 THEN Clear(f1, PairLabels) ELSE f1
      f3 == IF strongest # 3 THEN Clear(f2, TwoPairLabels) ELSE f2
      f4 == IF strongest # 4 THEN Clear(f3, ThreeOfAKindLabels) ELSE f3
  IN  IF strongest >= 6 THEN Clear(f4, StraightDrawFlags) ELSE f4

(***************************************************************************)
(* Evaluation of one 5-card hand                                           *)
(***************************************************************************)
\* the calls of #evaluateSingleHand, in program order
CallOrder ==
  <<"isFourOfAKind", "isFullHouse", "isThreeOfAKind", "isTwoPair", "isPair",
    "isFlush", "isTopPair", "isMiddlePair", "isBottomPair", "isTopAndMiddlePair",
    "isTopAndBottomPair", "isMiddleAndBottomPair", "isTopThreeOfAKind",
    "isMiddleThreeOfAKind", "isBottomThreeOfAKind", "isFlushDraw",
    "isBackdoorFlushDraw", "isStraight", "isRoyalFlush", "isStraightFlush",
    "isOpenEndedStraightDraw", "isInsideStraightDraw", "isStraightDraw",
    "isHighCard">>

\* this.#<name>()
Call(name, st) ==
  CASE name = "isFourOfAKind" -> isFourOfAKind(st)
    [] name = "isFullHouse" -> isFullHouse(st)
    [] name = "isThreeOfAKind" -> isThreeOfAKind(st)
    [] name = "isTwoPair" -> isTwoPair(st)
    [] name = "isPair" -> isPair(st)
    [] name = "isFlush" -> isFlush(st)
    [] name = "isTopPair" -> isTopPair(st)
    [] name = "isMiddlePair" -> isMiddlePair(st)
    [] name = "isBottomPair" -> isBottomPair(st)
    [] name = "isTopAndMiddlePair" -> isTopAndMiddlePair(st)
    [] name = "isTopAndBottomPair" -> isTopAndBottomPair(st)
    [] name = "isMiddleAndBottomPair" -> isMiddleAndBottomPair(st)
    [] name = "isTopThreeOfAKind" -> isTopThreeOfAKind(st)
    [] name = "isMiddleThreeOfAKind" -> isMiddleThreeOfAKind(st)
    [] name = "isBottomThreeOfAKind" -> isBottomThreeOfAKind(st)
    [] name = "isFlushDraw" -> isFlushDraw(st)
    [] name = "isBackdoorFlushDraw" -> isBackdoorFlushDraw(st)
    [] name = "isStraight" -> isStraight(st)
    [] name = "isRoyalFlush" -> isRoyalFlush(st)
    [] name = "isStraightFlush" -> isStraightFlush(st)
    [] name = "isOpenEndedStraightDraw" -> isOpenEndedStraightDraw(st)
    [] name = "isInsideStraightDraw" -> isInsideStraightDraw(st)
    [] name = "isStraightDraw" -> isStraightDraw(st)
    [] name = "isHighCard" -> isHighCard(st)
    [] name = "isStraightWheel" -> isStraightWheel(st)

\* the calls from the i-th on.  (Every call has assigned its flag before the
\* next one runs; testing that makes TLC evaluate the calls one after the
\* other instead of nesting their evaluations.)
RECURSIVE RunCalls(_, _)
RunCallsAfter(called, i) ==
  IF Has(called, CallOrder[i]) THEN RunCalls(called, i + 1) ELSE called

RunCalls(st, i) ==
  IF i > Len(CallOrder) THEN st
  ELSE RunCallsAfter(Call(CallOrder[i], st), i)

\* the end of #evaluateSingleHand: strict mode applied to the flags, and the
\* flags returned with the key cards (keys: what #buildKeyCardsObject
\* returned and the evaluator object it left) and the kicker cards
ReturnEvaluation(flags, keys, strictMode) ==
  [evaluation |->
     [flags |-> IF strictMode THEN applyStrictMode(flags) ELSE flags,
      keyCards |-> keys.val,
      kickerCards |-> buildKickerCardsObject(keys.val, keys.st)],
   cards |-> keys.st.cards]

\* #evaluateSingleHand from const keyCards = this.#buildKeyCardsObject() on,
\* classified being the evaluator object after the calls
AddCardArrays(classified, strictMode) ==
  ReturnEvaluation(classified.ev, buildKeyCardsObject(classified), strictMode)

\* #evaluateSingleHand() of an evaluator whose this.cards is cards: the
\* evaluation it returns and the order it leaves this.cards in
evaluateSingleHand(cards, strictMode) ==
  AddCardArrays(RunCalls(NewState(cards), 1), strictMode)

(***************************************************************************)
(* Combinations, hand keys and the result object                           *)
(***************************************************************************)
RECURSIVE generateCombinations(_, _), combinationsFrom(_, _, _)
generateCombinations(cards, size) ==
  IF size = 0 THEN << <<>> >>
  ELSE IF Len(cards) < size THEN <<>>
  ELSE IF Len(cards) = size THEN <<cards>>
  ELSE combinationsFrom(cards, size, 0)

\* the loop of #generateCombinations stopping one iteration early
\* (i < cards.length - size)
RECURSIVE combinationsFrom_StopEarly(_, _, _)
combinationsFrom_StopEarly(cards, size, i) ==
  IF i >= Len(cards) - size THEN <<>>
  ELSE LET head == cards[i + 1]
           tail == SubSeq(cards, i + 2, Len(cards))
           tailCombinations == generateCombinations(tail, size - 1)
       IN  [k \in 1..Len(tailCombinations) |-> <<head>> \o tailCombinations[k]]
             \o combinationsFrom_StopEarly(cards, size, i + 1)

\* the iterations i, i + 1, ..., cards.length - size of the loop of
\* #generateCombinations: the combinations they push, in order
combinationsFrom(cards, size, i) ==
  IF i > Len(cards) - size THEN <<>>
  ELSE LET head == cards[i + 1]
           tail == SubSeq(cards, i + 2, Len(cards))
           tailCombinations == generateCombinations(tail, size - 1)
       IN  [k \in 1..Len(tailCombinations) |-> <<head>> \o tailCombinations[k]]
             \o combinationsFrom(cards, size, i + 1)

\* Array.prototype.join(', ') over the characters of the tokens
RECURSIVE Join(_)
Join(tokens) ==
  IF Len(tokens) = 0 THEN <<>>
  ELSE IF Len(tokens) = 1 THEN tokens[1]
  ELSE Join(SubSeq(tokens, 1, Len(tokens) - 1)) \o <<",", " ">> \o tokens[Len(tokens)]

\* #formatHandKey joining the cards in the order given
formatHandKey_Unsorted(cards) == Join(cards)

formatHandKey(cards) == Join(SortDesc(cards, FALSE))

\* result[key] = evaluation on an object with string keys: a new key is added
\* behind the others, an existing key keeps its place
SetProperty(obj, key, evaluation) ==
  IF \E i \in 1..Len(obj) : obj[i].key = key
  THEN [i \in 1..Len(obj) |->
          IF obj[i].key = key THEN [key |-> key, evaluation |-> evaluation]
          ELSE obj[i]]
  ELSE Append(obj, [key |-> key, evaluation |-> evaluation])

\* the default value of the constructor parameter strict
DefaultStrict == TRUE

\* return { [key]: evaluation }, single being what #evaluateSingleHand
\* returned and the order it left this.cards in
WrapEvaluation(key, single) ==
  [evaluation |-> SetProperty(<<>>, key, single.evaluation),
   cards |-> single.cards]

\* new HandEvaluator(cards, strictMode) for exactly 5 valid cards: the
\* evaluation object it holds and the order it leaves its card array in
evaluateFive(cards, strictMode) ==
  WrapEvaluation(formatHandKey(cards), evaluateSingleHand(cards, strictMode))

\* evaluation[Object.keys(evaluation)[0]]
FirstEvaluation(evaluation) ==
  (CHOOSE e \in ToSet(evaluation) : e.key = evaluation[1].key).evaluation

\* the body of the loop over the combinations: the result object after
\* new HandEvaluator(combination) and result[key] = ...
evaluateCombination(obj, combination) ==
  SetProperty(obj, formatHandKey(combination),
              FirstEvaluation(evaluateFive(combination, DefaultStrict).evaluation))

RECURSIVE evaluateCombinationsFrom(_, _, _)
evaluateCombinationsFrom(combos, obj, i) ==
  IF i > Len(combos) THEN obj
  ELSE evaluateCombinationsFrom(combos, evaluateCombination(obj, combos[i]), i + 1)

\* evaluateHand(cards, strictMode) of a valid input: the result object
evaluateHand(cards, strictMode) ==
  IF Len(cards) = 5 THEN evaluateFive(cards, strictMode).evaluation
  ELSE evaluateCombinationsFrom(generateCombinations(cards, 5), <<>>, 1)


(***************************************************************************)
(* Validation of an input array of string tokens                           *)
(***************************************************************************)
\* A value passed for cards that is no array (null, a string, an object), and
\* an array element that is no string (null, a number): each is written as a
\* marker no array of tokens and no token is equal to.
NotAnArray == << <<"#notAnArray">> >>

NotAString == <<"#notAString">>

\* Array.isArray(cards)
IsArray(cards) == cards # NotAnArray

\* typeof card === 'string'
IsString(card) == card # NotAString

\* the loop of #validateCards testing the suit of a token before its rank
RECURSIVE validateFrom_SuitBeforeRank(_, _)
validateFrom_SuitBeforeRank(cards, i) ==
  IF i >= Len(cards) THEN <<"ok">>
  ELSE LET card == cards[i + 1]
       IN  IF ~IsString(card) THEN <<"NotString", i>>
           ELSE IF Len(card) < 2 THEN <<"InvalidFormat", i, card>>
           ELSE IF \E j \in 1..i : cards[j] = card THEN <<"Duplicate", card>>
           ELSE IF SuitOf(card) \notin validSuits THEN <<"InvalidSuit", i, SuitOf(card)>>
           ELSE IF RankOf(card) \notin validRanks THEN <<"InvalidRank", i, RankOf(card)>>
           ELSE validateFrom_SuitBeforeRank(cards, i + 1)

\* the errors thrown, each with what its message interpolates; i is the
\* index of the loop, from 0
RECURSIVE validateFrom(_, _)
validateFrom(cards, i) ==
  IF i >= Len(cards) THEN <<"ok">>
  ELSE LET card == cards[i + 1]
       IN  IF ~IsString(card) THEN <<"NotString", i>>
           ELSE IF Len(card) < 2 THEN <<"InvalidFormat", i, card>>
           ELSE IF \E j \in 1..i : cards[j] = card THEN <<"Duplicate", card>>
           ELSE IF RankOf(card) \notin validRanks THEN <<"InvalidRank", i, RankOf(card)>>
           ELSE IF SuitOf(card) \notin validSuits THEN <<"InvalidSuit", i, SuitOf(card)>>
           ELSE validateFrom(cards, i + 1)

\* #validateCards without the test of the number of cards
validateCards_NoLengthCheck(cards) ==
  IF ~IsArray(cards) THEN <<"NotArray">>
  ELSE validateFrom(cards, 0)

validateCards(cards) ==
  IF ~IsArray(cards) THEN <<"NotArray">>
  ELSE IF Len(cards) < 5 THEN <<"TooFewCards", Len(cards)>>
  ELSE validateFrom(cards, 0)

\* the constructor got past #validateCards
Valid(cards) == validateCards(cards)[1] = "ok"

(***************************************************************************)
(* Bounds of the inputs                                                    *)
(***************************************************************************)
\* ranks a 5-card hand of five different ranks is drawn from: the first
\* NumRanks of RankPool
NumRanks == 10

\* ranks a 5-card hand that repeats a rank is drawn from: the first
\* NumPairRanks of RankPool
NumPairRanks == 5

\* suit patterns laid over a 5-card hand: the first NumPatterns of SuitPatterns
NumPatterns == 3

\* orders each input is presented in: the first NumPerms of the orders Permute
\* generates
NumPerms == 1

\* cards a longer input is drawn from: the first DeckSize of MultiDeck
DeckSize == 8

\* most cards in one input
MaxN == 7

RankPool == <<"5", "A", "4", "3", "2", "K", "Q", "J", "T", "6", "9", "8", "7">>

SuitPool == <<"s", "h", "d", "c">>

SuitPatterns ==
  << <<0, 0, 0, 0, 0>>, <<0, 0, 0, 0, 1>>, <<0, 1, 0, 1, 0>>, <<0, 1, 2, 3, 0>>,
     <<1, 0, 0, 0, 0>>, <<2, 2, 0, 0, 0>> >>

MultiDeck ==
  << <<"9", "s">>, <<"T", "s">>, <<"J", "s">>, <<"Q", "s">>, <<"K", "s">>,
     <<"A", "s">>, <<"A", "h">>, <<"K", "h">>, <<"A", "d">>, <<"K", "d">>,
     <<"3", "c">>, <<"A", "c">> >>

\* the k-th order of a sequence: 1 as given, 2 reversed, then the rotations of
\* these two
Permute(s, k) ==
  LET n == Len(s)
      rot == (k - 1) \div 2
      at(i) == ((i - 1 + rot) % n) + 1
  IN  [i \in 1..n |-> IF k % 2 = 1 THEN s[at(i)] ELSE s[n + 1 - at(i)]]

\* the hand with ranks RankPool[t[1]], ..., RankPool[t[5]] (t non-decreasing);
\* the j-th card of a rank takes the suit j places behind the pattern's
HandOf(t, p) ==
  [k \in 1..5 |->
     LET j == Cardinality({m \in 1..(k - 1) : t[m] = t[k]})
     IN  <<RankPool[t[k]], SuitPool[((SuitPatterns[p][k] + j) % 4) + 1]>>]

\* the members of a set of 5 indices, in increasing order
AscendingOf(S) ==
  [k \in 1..5 |-> CHOOSE x \in S : Cardinality({y \in S : y < x}) = k - 1]

\* every choice of 5 distinct ranks of the first NumRanks, and every choice of
\* 5 ranks, repetitions included, of the first NumPairRanks
RankTuples ==
  {AscendingOf(S) : S \in {T \in SUBSET (1..NumRanks) : Cardinality(T) = 5}}
    \cup {t \in [1..5 -> 1..NumPairRanks] : \A k \in 1..4 : t[k] <= t[k + 1]}

FiveCardHands ==
  {h \in {HandOf(t, p) : t \in RankTuples, p \in 1..NumPatterns} :
     Cardinality(ToSet(h)) = 5}

\* the index sets of the cards of a longer input, kept in deck order
RECURSIVE Pick(_, _)
Pick(S, from) ==
  IF from > DeckSize THEN <<>>
  ELSE IF from \in S THEN <<MultiDeck[from]>> \o Pick(S, from + 1)
  ELSE Pick(S, from + 1)

LongerInputs ==
  {Pick(S, 1) : S \in {T \in SUBSET (1..DeckSize) :
                         Cardinality(T) > 5 /\ Cardinality(T) <= MaxN}}

\* inputs the validation rejects
InvalidInputs ==
  { << <<"A", "s">>, <<"K", "s">>, <<"Q", "s">>, <<"J", "s">> >>,
    << <<"A", "s">>, <<"K", "s">>, <<"Q", "s">>, <<"J", "s">>, <<"Z", "s">> >>,
    << <<"A", "s">>, <<"K", "s">>, <<"Q", "s">>, <<"J", "s">>, <<"T", "x">> >>,
    << <<"A", "s">>, <<"K", "s">>, <<"A", "s">>, <<"J", "s">>, <<"T", "s">> >>,
    << <<"A", "s">>, <<"K">>, <<"Q", "s">>, <<"J", "s">>, <<"T", "s">> >>,
    << <<"1", "0", "s">>, <<"K", "s">>, <<"Q", "s">>, <<"J", "s">>, <<"T", "s">> >> }

\* tokens the arrays of TokenInputs are filled with: the first NumTokens of
\* TokenPool
NumTokens == 5

TokenPool ==
  << <<"A", "s">>, <<"K", "s">>, <<"Z", "x">>, <<"K">>, NotAString, <<"T", "x">>,
     <<"Z", "s">>, <<"1", "0", "s">>, <<>> >>

\* every array of 4 or of 5 of these tokens, repetitions included
TokenInputs ==
  UNION {{[i \in 1..n |-> TokenPool[f[i]]] : f \in [1..n -> 1..NumTokens]} :
           n \in {4, 5}}

Inputs ==
  {Permute(h, k) : h \in FiveCardHands \cup LongerInputs, k \in 1..NumPerms}
    \cup InvalidInputs \cup TokenInputs \cup {NotAnArray}

(***************************************************************************)
(* The call evaluateHand(input, strict), step by step.  input is the       *)
(* caller's array: the constructor keeps a reference to it (this.cards =   *)
(* cards), so the in-place sorts of a 5-card evaluation reorder it.        *)
(***************************************************************************)
Init ==
  /\ given \in Inputs
  /\ input = given
  /\ strict \in BOOLEAN
  /\ pc = "start"
  /\ combinations = <<>>
  /\ idx = 0
  /\ result = <<>>
  /\ error = <<>>

\* the constructor throws from #validateCards
Reject ==
  /\ pc = "start"
  /\ ~Valid(input)
  /\ pc' = "error"
  /\ error' = validateCards(input)
  /\ UNCHANGED <<given, input, strict, combinations, idx, result>>

\* this.evaluation = ..., evaluator being the evaluation object together with
\* the order the evaluation left the array of the caller in
Evaluated(evaluator) ==
  /\ result' = evaluator.evaluation
  /\ input' = evaluator.cards

\* #evaluateAllCombinations with exactly 5 cards
EvaluateFive ==
  /\ pc = "start"
  /\ Valid(input)
  /\ Len(input) = 5
  /\ Evaluated(evaluateFive(input, strict))
  /\ pc' = "done"
  /\ UNCHANGED <<given, strict, combinations, idx, error>>

\* #evaluateAllCombinations with more than 5 cards: the combinations
GenerateCombinations ==
  /\ pc = "start"
  /\ Valid(input)
  /\ Len(input) # 5
  /\ combinations' = generateCombinations(input, 5)
  /\ idx' = 1
  /\ pc' = "loop"
  /\ UNCHANGED <<given, input, strict, result, error>>

\* one iteration of for (const combination of combinations)
EvaluateCombination ==
  /\ pc = "loop"
  /\ idx <= Len(combinations)
  /\ result' = evaluateCombination(result, combinations[idx])
  /\ idx' = idx + 1
  /\ UNCHANGED <<given, input, strict, pc, combinations, error>>

\* return result
Return ==
  /\ pc = "loop"
  /\ idx > Len(combinations)
  /\ pc' = "done"
  /\ UNCHANGED <<given, input, strict, combinations, idx, result, error>>

Next ==
  \/ Reject
  \/ EvaluateFive
  \/ GenerateCombinations
  \/ EvaluateCombination
  \/ Return

Spec == Init /\ [][Next]_vars

TypeOK ==
  /\ pc \in {"start", "loop", "done", "error"}
  /\ strict \in BOOLEAN
  /\ idx \in 0..(Len(combinations) + 1)


(***************************************************************************)
(* Notions the properties are stated with                                  *)
(***************************************************************************)
\* the call returned a result for a valid input
Returned == pc = "done"

\* a returned call on exactly five cards
ReturnedFive == pc = "done" /\ Len(given) = 5

\* the 5-card hand the i-th entry of the result was computed from
EntryHand(i) == IF Len(given) = 5 THEN given ELSE combinations[i]

\* a flag of an evaluation read as a condition
FlagTrue(evaluation, c) ==
  c \in DOMAIN evaluation.flags /\ evaluation.flags[c]

\* the made-hand flags an evaluation has true
TrueMadeHands(evaluation) == {h \in MadeHands : FlagTrue(evaluation, h)}

\* the non-strict evaluation of the 5-card hand passed to the call
NonStrictOfGiven == evaluateSingleHand(given, FALSE).evaluation

\* the tokens a hand key names: the key split at comma-space
RECURSIVE SplitKey(_)
SplitKey(key) ==
  IF Len(key) = 0 THEN <<>>
  ELSE LET cut == {i \in 1..(Len(key) - 1) : key[i] = "," /\ key[i + 1] = " "}
       IN  IF cut = {} THEN <<key>>
           ELSE LET c == CHOOSE i \in cut : \A j \in cut : i <= j
                IN  <<SubSeq(key, 1, c - 1)>> \o SplitKey(SubSeq(key, c + 2, Len(key)))

\* C(n, 5)
Choose5(n) == (n * (n - 1) * (n - 2) * (n - 3) * (n - 4)) \div 120

\* the ace-high values of the ranks of a hand
HighValues(cards) == {getRankValue(cards[i]) : i \in 1..Len(cards)}

C2_EntryIsOwnEvaluation ==
  Returned =>
    \A i \in 1..Len(result) :
      result[i].evaluation = evaluateSingleHand(EntryHand(i), strict).evaluation

C4_FirstEntryIsStrongest ==
  (Returned /\ strict /\ Len(given) > 5) =>
    \A i \in 1..Len(result) :
      Strongest(result[i].evaluation.flags) <= Strongest(result[1].evaluation.flags)

(***************************************************************************)
(* C5.  Every order of the input cards yields the same result: the same    *)
(* keys, each with the same evaluation.  (The orders compared with the one *)
(* given are its reversal, its rotation by one and the reversal of that.)  *)
(***************************************************************************)
C5_OrderInvariant ==
  Returned =>
    \A k \in 2..4 :
      ToSet(evaluateHand(Permute(given, k), strict)) = ToSet(result)

(***************************************************************************)
(* C6.  For a 5-card hand and every category other than isHighCard whose   *)
(* flag is true in the returned evaluation, the key cards and the kicker   *)
(* cards of the category are disjoint and together are the 5 cards of the  *)
(* hand.                                                                   *)
(***************************************************************************)
C6_KeyKickerPartition ==
  ReturnedFive =>
    LET e == result[1].evaluation
    IN  \A c \in Categories \ {"isHighCard"} :
          FlagTrue(e, c) =>
            /\ ToSet(e.keyCards[c]) \cap ToSet(e.kickerCards[c]) = {}
            /\ ToSet(e.keyCards[c]) \cup ToSet(e.kickerCards[c]) = ToSet(given)
            /\ Len(e.keyCards[c]) + Len(e.kickerCards[c]) = 5

\* a returned pair hand: two key cards, three kickers
C6_Witness ==
  /\ ReturnedFive
  /\ FlagTrue(result[1].evaluation, "isPair")
  /\ Len(result[1].evaluation.keyCards["isPair"]) = 2
  /\ Len(result[1].evaluation.kickerCards["isPair"]) = 3

(***************************************************************************)
(* C7.  In every returned evaluation the key cards of a category other     *)
(* than isHighCard are non-empty exactly when the flag of the category is  *)
(* true, and the key cards of isHighCard are empty.                        *)
(***************************************************************************)
C7_KeyCardsIffFlag ==
  Returned =>
    \A i \in 1..Len(result) :
      LET e == result[i].evaluation
      IN  /\ \A c \in Categories \ {"isHighCard"} :
               (Len(e.keyCards[c]) > 0) <=> FlagTrue(e, c)
          /\ e.keyCards["isHighCard"] = <<>>

(***************************************************************************)
(* C8.  The kicker cards of isHighCard are the whole hand sorted           *)
(* descending when isHighCard is true and the empty list when it is false. *)
(***************************************************************************)
C8_HighCardKickers ==
  Returned =>
    \A i \in 1..Len(result) :
      LET e == result[i].evaluation
      IN  e.kickerCards["isHighCard"] =
            IF FlagTrue(e, "isHighCard") THEN SortDesc(EntryHand(i), FALSE) ELSE <<>>

IsWheelRanks(cards) == HighValues(cards) = {13, 1, 2, 3, 4}

IsRunOfFive(cards) == \E lo \in 1..9 : HighValues(cards) = lo..(lo + 4)

C10_StraightExactly ==
  (ReturnedFive /\ ~strict) =>
    LET e == result[1].evaluation
    IN  /\ FlagTrue(e, "isStraight") <=> (IsRunOfFive(given) \/ IsWheelRanks(given))
        /\ IsWheelRanks(given) => ~FlagTrue(e, "isRoyalFlush")

\* a non-strict A-2-3-4-5 reported as a straight
C10_Witness ==
  /\ ReturnedFive /\ ~strict
  /\ IsWheelRanks(given)
  /\ FlagTrue(result[1].evaluation, "isStraight")

(***************************************************************************)
(* C11.  A 5-card hand that is a made straight (five consecutive ranks     *)
(* with the ace high, or A-2-3-4-5) has isOpenEndedStraightDraw,           *)
(* isInsideStraightDraw and isStraightDraw all false, with and without     *)
(* strict mode.                                                            *)
(***************************************************************************)
C11_NoDrawOnMadeStraight ==
  (ReturnedFive /\ (IsRunOfFive(given) \/ IsWheelRanks(given))) =>
    LET e == result[1].evaluation
    IN  /\ ~FlagTrue(e, "isOpenEndedStraightDraw")
        /\ ~FlagTrue(e, "isInsideStraightDraw")
        /\ ~FlagTrue(e, "isStraightDraw")

\* all the cards of a hand have one suit
SameSuit(cards) == Cardinality({SuitOf(cards[i]) : i \in 1..Len(cards)}) = 1

\* the ranks of a hand are A, K, Q, J and T
IsBroadwayRanks(cards) == HighValues(cards) = 9..13

FlushOrBetter ==
  {"isFlush", "isFullHouse", "isFourOfAKind", "isStraightFlush", "isRoyalFlush"}

(***************************************************************************)
(* C13.  In strict mode an evaluation whose surviving made hand is isFlush, *)
(* isFullHouse, isFourOfAKind, isStraightFlush or isRoyalFlush has         *)
(* isStraightDraw, isOpenEndedStraightDraw and isInsideStraightDraw false. *)
(***************************************************************************)
C13_NoStraightDrawFromFlushUp ==
  (Returned /\ strict) =>
    \A i \in 1..Len(result) :
      LET e == result[i].evaluation
      IN  TrueMadeHands(e) \cap FlushOrBetter # {} =>
            /\ ~FlagTrue(e, "isStraightDraw")
            /\ ~FlagTrue(e, "isOpenEndedStraightDraw")
            /\ ~FlagTrue(e, "isInsideStraightDraw")

\* a strict flush whose straight draw, true without strict mode, was filtered
C13_Witness ==
  /\ ReturnedFive /\ strict
  /\ TrueMadeHands(result[1].evaluation) = {"isFlush"}
  /\ FlagTrue(NonStrictOfGiven, "isStraightDraw")
  /\ ~FlagTrue(result[1].evaluation, "isStraightDraw")

\* the flags strict mode may change
StrictFiltered ==
  MadeHands \cup PairLabels \cup TwoPairLabels \cup ThreeOfAKindLabels
    \cup StraightDrawFlags

\* the flags the claim names as left alone
StrictUntouched ==
  {"isFlushDraw", "isBackdoorFlushDraw", "isStraightWheel",
   "isOpenEndedStraightDrawWheel", "isInsideStraightDrawWheel"}

\* the non-strict evaluation of the hand behind the i-th entry
NonStrictOfEntry(i) == evaluateSingleHand(EntryHand(i), FALSE).evaluation

C15_LabelsNeedTheirHand ==
  Returned =>
    \A i \in 1..Len(result) :
      LET e == result[i].evaluation
      IN  /\ \A l \in PairLabels : FlagTrue(e, l) => FlagTrue(e, "isPair")
          /\ \A l \in TwoPairLabels : FlagTrue(e, l) => FlagTrue(e, "isTwoPair")
          /\ \A l \in ThreeOfAKindLabels :
               FlagTrue(e, l) => FlagTrue(e, "isThreeOfAKind")

\* a returned pair hand labelled as top pair
C15_Witness ==
  /\ ReturnedFive
  /\ FlagTrue(result[1].evaluation, "isTopPair")
  /\ FlagTrue(result[1].evaluation, "isPair")

\* the largest number of cards of one suit in a hand
MaxSuitCount(cards) ==
  LET count(s) == Cardinality({i \in 1..Len(cards) : SuitOf(cards[i]) = s})
  IN  CHOOSE n \in 1..Len(cards) :
        /\ \E s \in validSuits : count(s) = n
        /\ \A s \in validSuits : count(s) <= n

\* of isFlush, isFlushDraw and isBackdoorFlushDraw at most one is true, and
\* the two draws are true exactly for a largest suit count of 4 and of 3
FlushDrawsExactly(e, cards) ==
  /\ Cardinality({f \in {"isFlush", "isFlushDraw", "isBackdoorFlushDraw"} :
                    FlagTrue(e, f)}) <= 1
  /\ FlagTrue(e, "isFlushDraw") <=> (MaxSuitCount(cards) = 4)
  /\ FlagTrue(e, "isBackdoorFlushDraw") <=> (MaxSuitCount(cards) = 3)

C17_StraightDrawIsEitherDraw ==
  Returned =>
    \A i \in 1..Len(result) :
      LET e == result[i].evaluation
      IN  /\ "isStraightDraw" \in DOMAIN e.flags
          /\ e.flags["isStraightDraw"] =
               (FlagTrue(e, "isOpenEndedStraightDraw")
                  \/ FlagTrue(e, "isInsideStraightDraw"))

\* a returned hand that is a straight draw through its inside draw alone
C17_Witness ==
  /\ ReturnedFive
  /\ FlagTrue(result[1].evaluation, "isStraightDraw")
  /\ FlagTrue(result[1].evaluation, "isInsideStraightDraw")
  /\ ~FlagTrue(result[1].evaluation, "isOpenEndedStraightDraw")

\* k is a 4-card slice of the hand (the first four or the last four of the
\* cards sorted with the ace high or with the ace low) whose rank distance
\* in that order is d
IsDrawSlice(k, cards, d) ==
  \E wheel \in BOOLEAN :
    \E slice \in {FirstFour(SortDesc(cards, wheel)), LastFour(SortDesc(cards, wheel))} :
      /\ Len(k) = 4
      /\ ToSet(k) = ToSet(slice)
      /\ d = IF wheel THEN getDistanceWheel(slice) ELSE getDistance(slice)

(***************************************************************************)
(* C18.  When isOpenEndedStraightDraw is true its key cards are a 4-card   *)
(* slice of the hand (first four or last four, ace high or ace low) whose  *)
(* rank distance in that order is exactly 3; when isInsideStraightDraw is  *)
(* true its key cards are such a slice whose distance is exactly 4.        *)
(***************************************************************************)
C18_DrawKeyCardsAreTheDraw ==
  Returned =>
    \A i \in 1..Len(result) :
      LET e == result[i].evaluation
      IN  /\ FlagTrue(e, "isOpenEndedStraightDraw") =>
               IsDrawSlice(e.keyCards["isOpenEndedStraightDraw"], EntryHand(i), 3)
          /\ FlagTrue(e, "isInsideStraightDraw") =>
               IsDrawSlice(e.keyCards["isInsideStraightDraw"], EntryHand(i), 4)

(***************************************************************************)
(* C19.  isStraightWheel is true only for the wheel straight: only when    *)
(* the five ranks of the hand are exactly A, 2, 3, 4, 5.  It is false for  *)
(* every other hand, every other straight included.                        *)
(***************************************************************************)
C19_WheelFlagOnlyForWheel ==
  Returned =>
    \A i \in 1..Len(result) :
      FlagTrue(result[i].evaluation, "isStraightWheel") => IsWheelRanks(EntryHand(i))

(***************************************************************************)
(* C20.  Every returned evaluation defines each of the 27 category flags   *)
(* as a boolean, isStraightWheel, isOpenEndedStraightDrawWheel and         *)
(* isInsideStraightDrawWheel included, for every valid hand and either     *)
(* strict setting.                                                         *)
(***************************************************************************)
C20_AllFlagsDefined ==
  Returned =>
    \A i \in 1..Len(result) :
      /\ DOMAIN result[i].evaluation.flags = Categories
      /\ \A c \in Categories : result[i].evaluation.flags[c] \in BOOLEAN

\* a card token as the specification describes it: a string of at least 2
\* characters, one of the 13 rank symbols followed by one of the 4 suit symbols
WellFormed(token) ==
  /\ IsString(token)
  /\ Len(token) >= 2
  /\ RankOf(token) \in validRanks
  /\ SuitOf(token) \in validSuits

\* an input none of the rejection rules applies to
Acceptable(cards) ==
  /\ IsArray(cards)
  /\ Len(cards) >= 5
  /\ \A i \in 1..Len(cards) : WellFormed(cards[i])
  /\ \A i, j \in 1..Len(cards) : i # j => cards[i] # cards[j]

(***************************************************************************)
(* C21.  evaluateHand throws a validation error and returns no result      *)
(* exactly when the input is no array, has fewer than 5 elements, holds an *)
(* element that is no well-formed card token, or holds the same token      *)
(* twice; every other input is accepted and evaluated.                     *)
(***************************************************************************)
C21_RejectedExactlyWhenInvalid ==
  /\ pc # "start" => (pc = "error" <=> ~Acceptable(given))
  /\ pc = "error" => result = <<>> /\ error # <<>>
  /\ pc = "done" => Len(result) >= 1 /\ error = <<>>

C21_Witness ==
  /\ pc = "error"
  /\ Len(given) = 5
  /\ \A i \in 1..5 : WellFormed(given[i])

(***************************************************************************)
(* C22.  The key of each entry is its 5 cards in non-increasing ace-high   *)
(* rank, joined by a comma and a space, and the cards the key names are    *)
(* exactly the 5 cards evaluated in that entry.                            *)
(***************************************************************************)
C22_KeyNamesTheEntry ==
  Returned =>
    \A i \in 1..Len(result) :
      LET tokens == SplitKey(result[i].key)
      IN  /\ Len(tokens) = 5
          /\ result[i].key = Join(tokens)
          /\ \A k \in 1..4 : getRankValue(tokens[k]) >= getRankValue(tokens[k + 1])
          /\ ToSet(tokens) = ToSet(EntryHand(i))
          /\ ToSet(tokens) = ToSet(result[i].evaluation.kickerCards["isHighCard"])

\* a returned call on more than 5 cards whose first combination was not in
\* key order
C22_Witness ==
  /\ Returned
  /\ Len(given) > 5
  /\ SplitKey(result[1].key) # combinations[1]

\* the hand holds some rank more than once
HasRepeatedRank(cards) == Cardinality(HighValues(cards)) < Len(cards)

WheelValues(cards) == {getRankValueWheel(cards[i]) : i \in 1..Len(cards)}

(***************************************************************************)
(* C23.  For every hand holding a rank more than once (pair, two pair,     *)
(* three of a kind, full house, four of a kind) the flags                  *)
(* isOpenEndedStraightDraw, isInsideStraightDraw, isStraightDraw,          *)
(* isOpenEndedStraightDrawWheel and isInsideStraightDrawWheel are all      *)
(* false: the wheel fallback turns no straight draw on for such a hand.    *)
(***************************************************************************)
C23_NoStraightDrawWithRepeatedRank ==
  Returned =>
    \A i \in 1..Len(result) :
      HasRepeatedRank(EntryHand(i)) =>
        \A f \in {"isOpenEndedStraightDraw", "isInsideStraightDraw", "isStraightDraw",
                  "isOpenEndedStraightDrawWheel", "isInsideStraightDrawWheel"} :
          /\ f \in DOMAIN result[i].evaluation.flags
          /\ result[i].evaluation.flags[f] = FALSE

\* a returned one-pair hand whose four ranks are consecutive with the ace low
C23_Witness ==
  /\ ReturnedFive
  /\ ~strict
  /\ Cardinality(WheelValues(given)) = 4
  /\ \E lo \in 1..10 : WheelValues(given) = lo..(lo + 3)
  /\ result[1].evaluation.flags["isOpenEndedStraightDrawWheel"] = FALSE

\* five rank values that make a straight: a run of five with the ace high,
\* or A-2-3-4-5 (given as ace-high values); no run wraps around the ace
StraightValues(V) ==
  \/ \E lo \in 1..9 : V = lo..(lo + 4)
  \/ V = {13, 1, 2, 3, 4}

\* four of the cards and one card of a rank the hand does not hold would
\* form a straight
OneCardFromStraight(cards) ==
  \E drop \in 1..5 :
    \E r \in (1..13) \ HighValues(cards) :
      StraightValues({getRankValue(cards[k]) : k \in (1..5) \ {drop}} \cup {r})

(***************************************************************************)
(* C24.  For every hand of five distinct ranks that is no made straight,   *)
(* the non-strict isStraightDraw is true if and only if four of its cards  *)
(* and one card of a rank not in the hand would form a straight (ace high  *)
(* or low, no wrap-around).                                                *)
(***************************************************************************)
C24_StraightDrawIsOneCardAway ==
  (ReturnedFive /\ ~strict) =>
    ((Cardinality(HighValues(given)) = 5 /\ ~StraightValues(HighValues(given))) =>
       (FlagTrue(result[1].evaluation, "isStraightDraw") <=> OneCardFromStraight(given)))

\* a returned hand whose only draw runs through the ace counted low
C24_Witness ==
  /\ ReturnedFive
  /\ ~strict
  /\ Cardinality(HighValues(given)) = 5
  /\ ~StraightValues(HighValues(given))
  /\ FlagTrue(result[1].evaluation, "isInsideStraightDrawWheel")
  /\ FlagTrue(result[1].evaluation, "isStraightDraw")
  /\ OneCardFromStraight(given)

\* the labels of a family an evaluation has true
TrueLabels(evaluation, labels) == {l \in labels : FlagTrue(evaluation, l)}

(***************************************************************************)
(* C25.  Whenever isPair is true exactly one of isTopPair, isMiddlePair,   *)
(* isBottomPair is true; whenever isTwoPair is true exactly one of         *)
(* isTopAndMiddlePair, isTopAndBottomPair, isMiddleAndBottomPair is true;  *)
(* whenever isThreeOfAKind is true exactly one of isTopThreeOfAKind,       *)
(* isMiddleThreeOfAKind, isBottomThreeOfAKind is true.                     *)
(***************************************************************************)
C25_ExactlyOnePositionLabel ==
  Returned =>
    \A i \in 1..Len(result) :
      LET e == result[i].evaluation
      IN  /\ FlagTrue(e, "isPair") => Cardinality(TrueLabels(e, PairLabels)) = 1
          /\ FlagTrue(e, "isTwoPair") => Cardinality(TrueLabels(e, TwoPairLabels)) = 1
          /\ FlagTrue(e, "isThreeOfAKind") =>
               Cardinality(TrueLabels(e, ThreeOfAKindLabels)) = 1

\* a returned strict one-pair hand whose pair is of the third-highest rank
C25_Witness ==
  /\ ReturnedFive
  /\ strict
  /\ FlagTrue(result[1].evaluation, "isPair")
  /\ TrueLabels(result[1].evaluation, PairLabels) = {"isMiddlePair"}
  /\ \E c \in ToSet(given) :
       /\ Cardinality({d \in ToSet(given) : RankOf(d) = RankOf(c)}) = 2
       /\ Cardinality({v \in HighValues(given) : v > getRankValue(c)}) = 2

(***************************************************************************)
(* C26.  For every valid 5-card hand that is no flush (its cards are not   *)
(* all of one suit) the strict and the non-strict evaluation are           *)
(* identical: strict filtering changes the result only for a hand whose    *)
(* non-strict evaluation has isFlush true.                                 *)
(***************************************************************************)
C26_StrictChangesFlushesOnly ==
  (ReturnedFive /\ strict) =>
    LET nonStrict == NonStrictOfGiven
    IN  /\ ~SameSuit(given) => result[1].evaluation = nonStrict
        /\ result[1].evaluation # nonStrict => FlagTrue(nonStrict, "isFlush")

\* a returned strict hand of two suits holding a pair and a flush draw
C26_Witness ==
  /\ ReturnedFive
  /\ strict
  /\ ~SameSuit(given)
  /\ FlagTrue(result[1].evaluation, "isPair")
  /\ FlagTrue(result[1].evaluation, "isFlushDraw")
  /\ result[1].evaluation = NonStrictOfGiven

(***************************************************************************)
(* C27.  evaluateHand does not modify its argument: after the call the     *)
(* array of the caller holds the same tokens in the same order as before,  *)
(* for 5 cards and for more than 5.                                        *)
(***************************************************************************)
C27_ArgumentUnchanged == Returned => input = given

\* the token at index i (from 0) breaks a rule
Offending(cards, i) ==
  \/ ~WellFormed(cards[i + 1])
  \/ \E j \in 1..i : cards[j] = cards[i + 1]

\* the kind of error the stated order gives for the token at index i
TokenErrorKind(cards, i) ==
  LET token == cards[i + 1]
  IN  IF ~IsString(token) THEN "NotString"
      ELSE IF Len(token) < 2 THEN "InvalidFormat"
      ELSE IF \E j \in 1..i : cards[j] = token THEN "Duplicate"
      ELSE IF RankOf(token) \notin validRanks THEN "InvalidRank"
      ELSE "InvalidSuit"

(***************************************************************************)
(* C28.  When an input breaks several validation rules the error reported  *)
(* is the first in this order: no array; fewer than 5 elements; then, for  *)
(* the first offending token from index 0 upward: no string, shorter than  *)
(* 2 characters, duplicate of an earlier token, invalid rank, invalid      *)
(* suit.  Hence fewer than 5 elements always report the too-few-cards      *)
(* error whatever the tokens are, and a duplicate is only ever reported    *)
(* for a token that is otherwise well formed.                              *)
(***************************************************************************)
C28_FirstErrorInOrder ==
  pc = "error" =>
    /\ ~IsArray(given) => error = <<"NotArray">>
    /\ (IsArray(given) /\ Len(given) < 5) => error = <<"TooFewCards", Len(given)>>
    /\ (IsArray(given) /\ Len(given) >= 5) =>
         LET first == CHOOSE i \in 0..(Len(given) - 1) :
                        /\ Offending(given, i)
                        /\ \A j \in 0..(i - 1) : ~Offending(given, j)
         IN  /\ error[1] = TokenErrorKind(given, first)
             /\ error[1] # "Duplicate" => error[2] = first
             /\ error[1] = "Duplicate" =>
                  error[2] = given[first + 1] /\ WellFormed(error[2])

\* a rejected array whose first offending token has neither a valid rank nor
\* a valid suit, followed by a repeated token
C28_Witness ==
  /\ pc = "error"
  /\ Len(given) = 5
  /\ error[1] = "InvalidRank"
  /\ LET token == given[error[2] + 1]
     IN  /\ SuitOf(token) \notin validSuits
         /\ \E k \in (error[2] + 2)..5 : given[k] = token

\* a list in non-increasing rank, ace high or (wheel) ace low
SortedBy(list, wheel) ==
  \A k \in 1..(Len(list) - 1) : ValueOf(list[k], wheel) >= ValueOf(list[k + 1], wheel)

\* the keys of a straight and of the straight draws
StraightKeyNames ==
  {"isStraight", "isStraightWheel", "isOpenEndedStraightDraw", "isInsideStraightDraw",
   "isStraightDraw", "isOpenEndedStraightDrawWheel", "isInsideStraightDrawWheel"}

\* cards that lie within a run of five with the ace low and not with the ace
\* high
OnlyAceLow(list) ==
  /\ Len(list) > 0
  /\ getDistanceWheel(list) <= 4
  /\ getDistance(list) > 4

NumOrders == 1

\* the k-th other order of the calls of #evaluateSingleHand: CallOrder
\* rotated by 5 * k places, and reversed when k is odd
CallOrderVariant(k) ==
  LET n == Len(CallOrder)
      at(i) == ((i - 1 + 5 * k) % n) + 1
  IN  [i \in 1..n |-> IF k % 2 = 0 THEN CallOrder[at(i)] ELSE CallOrder[at(n + 1 - i)]]

\* the calls of #evaluateSingleHand made in the given order, from the i-th on
RECURSIVE RunCallsIn(_, _, _)
RunCallsIn(order, st, i) ==
  IF i > Len(order) THEN st
  ELSE LET called == Call(order[i], st)
       IN  IF Has(called, order[i]) THEN RunCallsIn(order, called, i + 1) ELSE called

\* #evaluateSingleHand with its calls made in the given order
evaluateSingleHandIn(order, cards, strictMode) ==
  AddCardArrays(RunCallsIn(order, NewState(cards), 1), strictMode)

====
